---- MODULE Spec2Model ----
(***************************************************************************)
(* Model of docker/docker-config-analysis.py: DockerConfigAnalyzer and     *)
(* main().  Text (Dockerfile contents, env files, monitoring paths) is a   *)
(* sequence of one-character strings, so that strip, split, startswith and *)
(* the substring test `in` are computed as Python computes them.           *)
(***************************************************************************)
EXTENDS Naturals, Sequences, FiniteSets, TLC

VARIABLES
    fs,          \* the project tree: file name -> file state (read-only)
    glob,        \* the order in which Path.glob yields the Dockerfile paths
    order,       \* the order in which the five analysis phases are run
    results,     \* self.results
    pc,          \* position of main(): "analyze", "summary", "save", "exit", ...
    step,        \* number of analysis phases analyze() has run
    exit_code,   \* process exit status (NoExit while running)
    written,     \* docker/analysis-results.json has been written
    content,     \* analyze_dockerfile_content: the argument
    lines,       \* analyze_dockerfile_content: content.split('\n')
    idx,         \* analyze_dockerfile_content: index of the next line
    analysis,    \* analyze_dockerfile_content: the local analysis dict
    dpc          \* analyze_dockerfile_content: "loop", "returned", "raised"

pvars == <<fs, glob, order, results, pc, step, exit_code, written>>
dvars == <<content, lines, idx, analysis, dpc>>
vars == <<fs, glob, order, results, pc, step, exit_code, written,
          content, lines, idx, analysis, dpc>>

(***************************************************************************)
(* Bounds of the model.                                                    *)
(***************************************************************************)
MaxLines == 2
MaxFiles == 2

(***************************************************************************)
(* Python str operations on sequences of characters.                       *)
(***************************************************************************)
IsSpace(c) == c \in {" ", "\t"}

StartsWith(s, p) == Len(s) >= Len(p) /\ SubSeq(s, 1, Len(p)) = p

Contains(s, p) ==
    \E i \in 0..(Len(s) - Len(p)) : SubSeq(s, i + 1, i + Len(p)) = p

RECURSIVE LStrip(_)
LStrip(s) == IF s # <<>> /\ IsSpace(Head(s)) THEN LStrip(Tail(s)) ELSE s

RECURSIVE RStrip(_)
RStrip(s) ==
    IF s # <<>> /\ IsSpace(s[Len(s)]) THEN RStrip(SubSeq(s, 1, Len(s) - 1)) ELSE s

Strip(s) == RStrip(LStrip(s))

\* Length of the longest prefix of s without white space.
RECURSIVE TokenLen(_)
TokenLen(s) == IF s = <<>> \/ IsSpace(Head(s)) THEN 0 ELSE 1 + TokenLen(Tail(s))

\* str.split(): the maximal runs of non-space characters.
RECURSIVE Split(_)
Split(s) ==
    LET t == LStrip(s)
        n == TokenLen(t)
    IN IF t = <<>> THEN <<>>
       ELSE <<SubSeq(t, 1, n)>> \o Split(SubSeq(t, n + 1, Len(t)))

\* Length of the longest prefix of s without a line feed.
RECURSIVE LineLen(_)
LineLen(s) == IF s = <<>> \/ Head(s) = "\n" THEN 0 ELSE 1 + LineLen(Tail(s))

\* str.split('\n'): always at least one (possibly empty) line.
RECURSIVE SplitLines(_)
SplitLines(s) ==
    LET n == LineLen(s)
    IN IF n = Len(s) THEN <<s>>
       ELSE <<SubSeq(s, 1, n)>> \o SplitLines(SubSeq(s, n + 2, Len(s)))

RECURSIVE JoinLines(_)
JoinLines(ls) ==
    IF ls = <<>> THEN <<>>
    ELSE IF Len(ls) = 1 THEN ls[1]
    ELSE ls[1] \o <<"\n">> \o JoinLines(Tail(ls))

(***************************************************************************)
(* The literals of analyze_dockerfile_content.                             *)
(***************************************************************************)
SP == <<" ">>
T_HASH == <<"#">>
T_FROM == <<"F", "R", "O", "M">>
T_AS == <<"A", "S">>
T_USER_SP == <<"U", "S", "E", "R", " ">>
T_HEALTHCHECK == <<"H", "E", "A", "L", "T", "H", "C", "H", "E", "C", "K">>
T_EXPOSE == <<"E", "X", "P", "O", "S", "E">>
T_ENTRYPOINT == <<"E", "N", "T", "R", "Y", "P", "O", "I", "N", "T">>
T_CMD == <<"C", "M", "D">>
T_MOUNT_CACHE == <<"-", "-", "m", "o", "u", "n", "t", "=", "t", "y", "p", "e",
                   "=", "c", "a", "c", "h", "e">>
T_BUILDKIT == <<"B", "U", "I", "L", "D", "K", "I", "T">>
T_PLATFORM == <<"-", "-", "p", "l", "a", "t", "f", "o", "r", "m", "=">>
T_UNKNOWN == <<"u", "n", "k", "n", "o", "w", "n">>

NewAnalysis ==
    [stages |-> 0, base_images |-> <<>>, has_user |-> FALSE,
     has_healthcheck |-> FALSE, has_expose |-> FALSE, has_entrypoint |-> FALSE,
     security_features |-> <<>>, optimization_features |-> <<>>]

\* A slip: `if` for the last `elif`, so that the --platform= test is made on
\* every line that is not skipped, whatever matched before it.
AnalyzeLine_PlatformIf(a, raw) ==
    LET line == Strip(raw)
        toks == Split(line)
        plat(b) == IF Contains(line, T_PLATFORM)
                   THEN [b EXCEPT !.optimization_features = Append(@, "multi-platform")]
                   ELSE b
        ok(b) == [raised |-> FALSE, a |-> plat(b)]
    IN IF line = <<>> \/ StartsWith(line, T_HASH) THEN [raised |-> FALSE, a |-> a]
       ELSE IF StartsWith(line, T_FROM) /\ Contains(line, T_AS) THEN
           IF Len(toks) > 1
           THEN ok([a EXCEPT !.stages = @ + 1,
                             !.base_images = Append(@, toks[2])])
           ELSE [raised |-> TRUE, a |-> a]
       ELSE IF StartsWith(line, T_FROM) THEN
           ok([a EXCEPT !.base_images =
                   Append(@, IF Len(toks) > 1 THEN toks[2] ELSE T_UNKNOWN)])
       ELSE IF StartsWith(line, T_USER_SP) THEN
           ok([a EXCEPT !.has_user = TRUE,
                        !.security_features = Append(@, "non-root-user")])
       ELSE IF StartsWith(line, T_HEALTHCHECK) THEN
           ok([a EXCEPT !.has_healthcheck = TRUE,
                        !.security_features = Append(@, "health-check")])
       ELSE IF StartsWith(line, T_EXPOSE) THEN ok([a EXCEPT !.has_expose = TRUE])
       ELSE IF StartsWith(line, T_ENTRYPOINT) \/ StartsWith(line, T_CMD) THEN
           ok([a EXCEPT !.has_entrypoint = TRUE])
       ELSE IF Contains(line, T_MOUNT_CACHE) THEN
           ok([a EXCEPT !.optimization_features = Append(@, "build-cache")])
       ELSE IF Contains(line, T_BUILDKIT) THEN
           ok([a EXCEPT !.optimization_features = Append(@, "buildkit")])
       ELSE ok(a)

\* One pass of the for loop over a raw line: [raised, a].  An IndexError of
\* line.split()[1] leaves the function; the dict built so far is dropped.
AnalyzeLine(a, raw) ==
    LET line == Strip(raw)
        toks == Split(line)
        ok(b) == [raised |-> FALSE, a |-> b]
    IN IF line = <<>> \/ StartsWith(line, T_HASH) THEN ok(a)
       ELSE IF StartsWith(line, T_FROM) /\ Contains(line, T_AS) THEN
           IF Len(toks) > 1
           THEN ok([a EXCEPT !.stages = @ + 1,
                             !.base_images = Append(@, toks[2])])
           ELSE [raised |-> TRUE, a |-> a]
       ELSE IF StartsWith(line, T_FROM) THEN
           ok([a EXCEPT !.base_images =
                   Append(@, IF Len(toks) > 1 THEN toks[2] ELSE T_UNKNOWN)])
       ELSE IF StartsWith(line, T_USER_SP) THEN
           ok([a EXCEPT !.has_user = TRUE,
                        !.security_features = Append(@, "non-root-user")])
       ELSE IF StartsWith(line, T_HEALTHCHECK) THEN
           ok([a EXCEPT !.has_healthcheck = TRUE,
                        !.security_features = Append(@, "health-check")])
       ELSE IF StartsWith(line, T_EXPOSE) THEN ok([a EXCEPT !.has_expose = TRUE])
       ELSE IF StartsWith(line, T_ENTRYPOINT) \/ StartsWith(line, T_CMD) THEN
           ok([a EXCEPT !.has_entrypoint = TRUE])
       ELSE IF Contains(line, T_MOUNT_CACHE) THEN
           ok([a EXCEPT !.optimization_features = Append(@, "build-cache")])
       ELSE IF Contains(line, T_BUILDKIT) THEN
           ok([a EXCEPT !.optimization_features = Append(@, "buildkit")])
       ELSE IF Contains(line, T_PLATFORM) THEN
           ok([a EXCEPT !.optimization_features = Append(@, "multi-platform")])
       ELSE ok(a)

\* A slip: the correction without its `stages == 0` test.
FinalizeStages_Always(a) ==
    IF a.base_images # <<>> THEN [a EXCEPT !.stages = 1] ELSE a

\* The single-stage correction after the loop.
FinalizeStages(a) ==
    IF a.stages = 0 /\ a.base_images # <<>> THEN [a EXCEPT !.stages = 1] ELSE a

RECURSIVE ScanLines(_, _)
ScanLines(a, ls) ==
    IF ls = <<>> THEN [raised |-> FALSE, a |-> a]
    ELSE LET r == AnalyzeLine(a, Head(ls))
         IN IF r.raised THEN r ELSE ScanLines(r.a, Tail(ls))

\* analyze_dockerfile_content as one call: [raised, a].
analyze_dockerfile_content(text) ==
    LET r == ScanLines(NewAnalysis, SplitLines(text))
    IN IF r.raised THEN r ELSE [raised |-> FALSE, a |-> FinalizeStages(r.a)]

(***************************************************************************)
(* Dockerfile lines the line-by-line specification draws its input from.   *)
(***************************************************************************)
L_FromAs == T_FROM \o SP \o <<"n">> \o SP \o T_AS \o SP \o <<"b">>
L_FromAs2 == T_FROM \o SP \o <<"m">> \o SP \o T_AS \o SP \o <<"c">>
L_From == T_FROM \o SP \o <<"p">>
L_FromBare == T_FROM
L_FromAsBare == T_FROM \o T_AS
L_FromPlatform == T_FROM \o SP \o T_PLATFORM \o <<"x">> \o SP \o <<"q">>
L_FromBuildkitAs == T_FROM \o SP \o T_BUILDKIT \o SP \o T_AS \o SP \o <<"d">>
L_User == T_USER_SP \o <<"a">>
L_UserBare == <<"U", "S", "E", "R">>
L_UserBuildkit == T_USER_SP \o T_BUILDKIT
L_Healthcheck == T_HEALTHCHECK \o SP \o T_CMD \o SP \o <<"x">>
L_Expose == T_EXPOSE \o SP \o <<"8", "0">>
L_Cmd == T_CMD \o SP \o T_PLATFORM \o <<"x">>
L_Entrypoint == T_ENTRYPOINT \o SP \o <<"x">>
L_RunCache == <<"R", "U", "N">> \o SP \o T_MOUNT_CACHE \o SP \o T_BUILDKIT
L_EnvBuildkit == <<"E", "N", "V">> \o SP \o T_BUILDKIT \o SP \o T_PLATFORM
L_RunPlatform == <<"R", "U", "N">> \o SP \o T_PLATFORM \o <<"x">>
L_Run == <<"R", "U", "N">> \o SP \o <<"x">>
L_Comment == T_HASH \o SP \o L_FromAs
L_Blank == <<>>
L_Indented == SP \o SP \o L_FromAs \o SP

LineCatalogue ==
    {L_FromAs, L_FromAs2, L_From, L_FromBare, L_FromAsBare, L_FromPlatform,
     L_FromBuildkitAs, L_User, L_UserBare, L_UserBuildkit, L_Healthcheck,
     L_Expose, L_Cmd, L_Entrypoint, L_RunCache, L_EnvBuildkit, L_RunPlatform,
     L_Run, L_Comment, L_Blank, L_Indented}

\* The Dockerfile of the documented example: two FROM .. AS, one FROM.
ExampleLines == <<L_FromAs, L_FromAs2, L_From>>

RECURSIVE SeqsUpTo(_, _)
SeqsUpTo(S, n) ==
    IF n = 0 THEN {<<>>}
    ELSE LET P == SeqsUpTo(S, n - 1)
         IN P \cup {Append(q, x) : q \in P, x \in S}

DockerfileTexts ==
    {JoinLines(ls) : ls \in SeqsUpTo(LineCatalogue, MaxLines) \cup {ExampleLines}}

(***************************************************************************)
(* analyze_dockerfile_content, one line of the loop per step.              *)
(***************************************************************************)
NoText == <<>>

\* The call: lines = content.split('\n'), a fresh analysis dict.
DfInit ==
    /\ content \in DockerfileTexts
    /\ lines = SplitLines(content)
    /\ idx = 1
    /\ analysis = NewAnalysis
    /\ dpc = "loop"

\* One iteration of `for line in lines`.
DfLine ==
    /\ dpc = "loop"
    /\ idx <= Len(lines)
    /\ LET r == AnalyzeLine(analysis, lines[idx])
       IN /\ analysis' = r.a
          /\ dpc' = IF r.raised THEN "raised" ELSE "loop"
          /\ idx' = idx + 1
    /\ UNCHANGED <<content, lines>>
    /\ UNCHANGED pvars

\* After the loop: the single-stage correction and `return analysis`.
DfReturn ==
    /\ dpc = "loop"
    /\ idx > Len(lines)
    /\ analysis' = FinalizeStages(analysis)
    /\ dpc' = "returned"
    /\ UNCHANGED <<content, lines, idx>>
    /\ UNCHANGED pvars

(***************************************************************************)
(* The project tree.  A file state is [kind, text, doc]: kind is "absent", *)
(* "dir" (a directory of that name), "unreadable" (open() raises) or       *)
(* "file"; text is the raw text f.read() returns; doc is what              *)
(* yaml.safe_load makes of the file: t = "error" (it raises), "null"       *)
(* (None, an empty document) or "dict".  A service carries the keys the    *)
(* file-level flags are computed from.                                     *)
(***************************************************************************)
NoDoc == [t |-> "none", services |-> <<>>, volumes |-> <<>>, networks |-> <<>>,
          scrape_configs |-> <<>>]
Absent == [kind |-> "absent", text |-> <<>>, doc |-> NoDoc]
Directory == [kind |-> "dir", text |-> <<>>, doc |-> NoDoc]
Unreadable == [kind |-> "unreadable", text |-> <<>>, doc |-> NoDoc]
Plain == [kind |-> "file", text |-> <<>>, doc |-> NoDoc]
TextFile(t) == [kind |-> "file", text |-> t, doc |-> NoDoc]
YamlFile(d) == [kind |-> "file", text |-> <<>>, doc |-> d]

\* Path.exists(): true of files and directories alike.
Exists(f) == f.kind # "absent"
\* Whether open(path, 'r') succeeds.
CanOpen(f) == f.kind = "file"

ComposeFiles ==
    <<"docker-compose.yml", "docker-compose.prod.yml", "docker-compose.dev.yml",
      "docker-compose.monitoring.yml", "docker/docker-compose.optimized.yml">>
DockerfilePaths == {"Dockerfile", "backend/Dockerfile.prod"}
EnvFiles == <<".env.production", ".env.dev", ".env.example">>
ConfigFiles == <<"nginx/nginx.conf", "redis.conf", "redis.prod.conf">>
DockerDir == "docker"
DashboardJson == "monitoring/grafana/dashboards/app.json"

T_prometheus_yml ==
    <<"p", "r", "o", "m", "e", "t", "h", "e", "u", "s", ".", "y", "m", "l">>
T_prometheus == <<"p", "r", "o", "m", "e", "t", "h", "e", "u", "s">>
T_dashboards_yml ==
    <<"d", "a", "s", "h", "b", "o", "a", "r", "d", "s", ".", "y", "m", "l">>
P_prometheus ==
    <<"m", "o", "n", "i", "t", "o", "r", "i", "n", "g", "/", "p", "r", "o",
      "m", "e", "t", "h", "e", "u", "s", "/", "p", "r", "o", "m", "e", "t",
      "h", "e", "u", "s", ".", "y", "m", "l">>
P_dashboards ==
    <<"m", "o", "n", "i", "t", "o", "r", "i", "n", "g", "/", "g", "r", "a",
      "f", "a", "n", "a", "/", "d", "a", "s", "h", "b", "o", "a", "r", "d",
      "s", "/", "d", "a", "s", "h", "b", "o", "a", "r", "d", "s", ".", "y",
      "m", "l">>
P_datasources ==
    <<"m", "o", "n", "i", "t", "o", "r", "i", "n", "g", "/", "g", "r", "a",
      "f", "a", "n", "a", "/", "d", "a", "t", "a", "s", "o", "u", "r", "c",
      "e", "s", "/", "p", "r", "o", "m", "e", "t", "h", "e", "u", "s", ".",
      "y", "m", "l">>
P_alertmanager ==
    <<"m", "o", "n", "i", "t", "o", "r", "i", "n", "g", "/", "a", "l", "e",
      "r", "t", "m", "a", "n", "a", "g", "e", "r", "/", "a", "l", "e", "r",
      "t", "m", "a", "n", "a", "g", "e", "r", ".", "y", "m", "l">>

\* monitoring_files, in insertion order: the tree's key and the path's text.
PrometheusYml == "monitoring/prometheus/prometheus.yml"
DashboardsYml == "monitoring/grafana/dashboards/dashboards.yml"
DatasourcesYml == "monitoring/grafana/datasources/prometheus.yml"
AlertmanagerYml == "monitoring/alertmanager/alertmanager.yml"
monitoring_files ==
    <<[file |-> PrometheusYml, path |-> P_prometheus],
      [file |-> DashboardsYml, path |-> P_dashboards],
      [file |-> DatasourcesYml, path |-> P_datasources],
      [file |-> AlertmanagerYml, path |-> P_alertmanager]>>

Range(q) == {q[i] : i \in 1..Len(q)}

Slots ==
    Range(ComposeFiles) \cup DockerfilePaths \cup Range(EnvFiles)
    \cup Range(ConfigFiles)
    \cup {PrometheusYml, DashboardsYml, DatasourcesYml, AlertmanagerYml}
    \cup {DashboardJson, DockerDir}

(***************************************************************************)
(* self.results and the issue strings.  An issue is its fixed prefix and   *)
(* the file name formatted into it.                                        *)
(***************************************************************************)
Issue(t, f) == [text |-> t, file |-> f]
AddIssue(res, t, f) == [res EXCEPT !.issues = Append(@, Issue(t, f))]

\* __init__: there is no 'environment' key yet.
NewResults ==
    [compose_files |-> <<>>, dockerfiles |-> <<>>, monitoring |-> <<>>,
     security |-> <<>>, issues |-> <<>>, recommendations |-> <<>>]

(***************************************************************************)
(* Phase 1: analyze_compose_files.                                         *)
(***************************************************************************)
ServiceAnalysis(sc) ==
    [image |-> sc.image, healthcheck |-> sc.healthcheck,
     security_opt |-> sc.security_opt, deploy |-> sc.deploy,
     restart |-> sc.restart]

\* [raised, a]: content.get raises AttributeError unless content is a dict.
analyze_compose_content(doc) ==
    IF doc.t # "dict" THEN [raised |-> TRUE, a |-> <<>>]
    ELSE LET svc == doc.services
             names == {svc[i].name : i \in 1..Len(svc)}
             cfg(n) == CHOOSE sc \in Range(svc) : sc.name = n
         IN [raised |-> FALSE,
             a |-> [services |-> [n \in names |-> ServiceAnalysis(cfg(n))],
                    volumes |-> doc.volumes,
                    networks |-> doc.networks,
                    has_healthchecks |-> \E sc \in Range(svc) : sc.healthcheck,
                    has_security_opts |-> \E sc \in Range(svc) : sc.security_opt,
                    has_resource_limits |-> \E sc \in Range(svc) : sc.deploy]]

\* The body of `for file in compose_files`.
ComposeStep(tree, res, file) ==
    LET f == tree[file]
        failed == AddIssue(res, "Failed to parse", file)
    IN IF ~Exists(f) THEN res
       ELSE IF ~CanOpen(f) \/ f.doc.t = "error" THEN failed
       ELSE LET r == analyze_compose_content(f.doc)
            IN IF r.raised THEN failed
               ELSE [res EXCEPT !.compose_files = (file :> r.a) @@ @]

\* A slip: the try around the loop, so that the first failure ends the phase.
RECURSIVE ComposeLoop_AbortOnFailure(_, _, _)
ComposeLoop_AbortOnFailure(tree, res, files) ==
    IF files = <<>> THEN res
    ELSE LET r == ComposeStep(tree, res, Head(files))
         IN IF Len(r.issues) > Len(res.issues) THEN r
            ELSE ComposeLoop_AbortOnFailure(tree, r, Tail(files))

RECURSIVE ComposeLoop(_, _, _)
ComposeLoop(tree, res, files) ==
    IF files = <<>> THEN res
    ELSE ComposeLoop(tree, ComposeStep(tree, res, Head(files)), Tail(files))

analyze_compose_files(tree, res) == ComposeLoop(tree, res, ComposeFiles)

(***************************************************************************)
(* Phase 2: analyze_dockerfiles.  g is what glob('**/Dockerfile*') yields. *)
(***************************************************************************)
DockerfileStep(tree, res, path) ==
    LET f == tree[path]
        failed == AddIssue(res, "Failed to analyze", path)
    IN IF f.kind \in {"absent", "dir"} THEN res
       ELSE IF ~CanOpen(f) THEN failed
       ELSE LET r == analyze_dockerfile_content(f.text)
            IN IF r.raised THEN failed
               ELSE [res EXCEPT !.dockerfiles = (path :> r.a) @@ @]

RECURSIVE DockerfileLoop(_, _, _)
DockerfileLoop(tree, res, paths) ==
    IF paths = <<>> THEN res
    ELSE DockerfileLoop(tree, DockerfileStep(tree, res, Head(paths)), Tail(paths))

analyze_dockerfiles(tree, g, res) == DockerfileLoop(tree, res, g)

(***************************************************************************)
(* Phase 3: analyze_monitoring_config.                                     *)
(***************************************************************************)
NewMonitoring ==
    [prometheus |-> [exists |-> FALSE, scrape_configs |-> 0],
     grafana |-> [exists |-> FALSE, dashboards |-> 0],
     alertmanager |-> [exists |-> FALSE, routes |-> 0],
     jaeger |-> [configured |-> FALSE]]

\* `'prometheus.yml' in file and 'prometheus' in file`
IsPrometheusPath(path) ==
    Contains(path, T_prometheus_yml) /\ Contains(path, T_prometheus)

\* A slip: the issues list assigned, not appended to.
PrometheusBranch_AssignIssues(m, f) ==
    LET failed(mon) ==
            [mon |-> mon,
             issues |-> <<Issue("Failed to parse Prometheus config", "")>>]
    IN IF ~CanOpen(f) \/ f.doc.t = "error" THEN failed(m.mon)
       ELSE LET seen == [m.mon EXCEPT !.prometheus.exists = TRUE]
            IN IF f.doc.t # "dict" THEN failed(seen)
               ELSE [mon |-> [seen EXCEPT !.prometheus.scrape_configs =
                                              Len(f.doc.scrape_configs)],
                     issues |-> m.issues]

\* The try block of the Prometheus branch on an existing file: m is the pair
\* [mon, issues].  'exists' is assigned before the scrape_configs are counted.
PrometheusBranch(m, f) ==
    LET failed(mon) ==
            [mon |-> mon,
             issues |-> Append(m.issues,
                               Issue("Failed to parse Prometheus config", ""))]
    IN IF ~CanOpen(f) \/ f.doc.t = "error" THEN failed(m.mon)
       ELSE LET seen == [m.mon EXCEPT !.prometheus.exists = TRUE]
            IN IF f.doc.t # "dict" THEN failed(seen)
               ELSE [mon |-> [seen EXCEPT !.prometheus.scrape_configs =
                                              Len(f.doc.scrape_configs)],
                     issues |-> m.issues]

\* The body of `for file, description in monitoring_files.items()`.
MonitoringStep(tree, m, entry) ==
    LET f == tree[entry.file]
    IN IF ~Exists(f) THEN m
       ELSE IF IsPrometheusPath(entry.path) THEN PrometheusBranch(m, f)
       ELSE IF Contains(entry.path, T_dashboards_yml) THEN
           [m EXCEPT !.mon.grafana.exists = TRUE,
                     !.mon.grafana.dashboards =
                         IF Exists(tree[DashboardJson]) THEN 1 ELSE 0]
       ELSE m

RECURSIVE MonitoringLoop(_, _, _)
MonitoringLoop(tree, m, entries) ==
    IF entries = <<>> THEN m
    ELSE MonitoringLoop(tree, MonitoringStep(tree, m, Head(entries)),
                        Tail(entries))

analyze_monitoring_config(tree, res) ==
    LET m == MonitoringLoop(tree, [mon |-> NewMonitoring, issues |-> res.issues],
                            monitoring_files)
    IN [res EXCEPT !.monitoring = m.mon, !.issues = m.issues]

(***************************************************************************)
(* Phase 4: analyze_security_config.                                       *)
(***************************************************************************)
T_CHANGE_ME == <<"C", "H", "A", "N", "G", "E", "_", "M", "E">>
T_password123 == <<"p", "a", "s", "s", "w", "o", "r", "d", "1", "2", "3">>
T_admin123 == <<"a", "d", "m", "i", "n", "1", "2", "3">>
T_secret123 == <<"s", "e", "c", "r", "e", "t", "1", "2", "3">>
T_JWT_SECRET == <<"J", "W", "T", "_", "S", "E", "C", "R", "E", "T">>
T_POSTGRES_PASSWORD ==
    <<"P", "O", "S", "T", "G", "R", "E", "S", "_", "P", "A", "S", "S", "W",
      "O", "R", "D">>
T_DB_PASSWORD == <<"D", "B", "_", "P", "A", "S", "S", "W", "O", "R", "D">>
T_REDIS_PASSWORD ==
    <<"R", "E", "D", "I", "S", "_", "P", "A", "S", "S", "W", "O", "R", "D">>

default_patterns == <<T_CHANGE_ME, T_password123, T_admin123, T_secret123>>

\* `for pattern in default_patterns: if pattern in content: append`
RECURSIVE FoundDefaults(_, _)
FoundDefaults(text, patterns) ==
    IF patterns = <<>> THEN <<>>
    ELSE (IF Contains(text, Head(patterns)) THEN <<Head(patterns)>> ELSE <<>>)
         \o FoundDefaults(text, Tail(patterns))

NewSecurity ==
    [environment_files |-> <<>>, secrets_detected |-> <<>>,
     security_practices |-> <<>>]

\* A slip: secrets_detected assigned, not extended.
SecurityStep_Assign(tree, s, env_file) ==
    LET f == tree[env_file]
        found == FoundDefaults(f.text, default_patterns)
    IN IF ~Exists(f) THEN
           [s EXCEPT !.sec.environment_files =
                         (env_file :> [exists |-> FALSE]) @@ @]
       ELSE IF ~CanOpen(f) THEN
           [s EXCEPT !.issues = Append(@, Issue("Failed to analyze", env_file))]
       ELSE [s EXCEPT !.sec.environment_files =
                          (env_file :> [exists |-> TRUE, default_secrets |-> found,
                                        has_jwt_secret |-> Contains(f.text, T_JWT_SECRET),
                                        has_db_password |->
                                            \/ Contains(f.text, T_POSTGRES_PASSWORD)
                                            \/ Contains(f.text, T_DB_PASSWORD),
                                        has_redis_password |->
                                            Contains(f.text, T_REDIS_PASSWORD)]) @@ @,
                      !.sec.secrets_detected = found]

\* The body of `for env_file in env_files`: s is the pair [sec, issues].
SecurityStep(tree, s, env_file) ==
    LET f == tree[env_file]
        found == FoundDefaults(f.text, default_patterns)
        entry == [exists |-> TRUE,
                  default_secrets |-> found,
                  has_jwt_secret |-> Contains(f.text, T_JWT_SECRET),
                  has_db_password |-> \/ Contains(f.text, T_POSTGRES_PASSWORD)
                                      \/ Contains(f.text, T_DB_PASSWORD),
                  has_redis_password |-> Contains(f.text, T_REDIS_PASSWORD)]
    IN IF ~Exists(f) THEN
           [s EXCEPT !.sec.environment_files =
                         (env_file :> [exists |-> FALSE]) @@ @]
       ELSE IF ~CanOpen(f) THEN
           [s EXCEPT !.issues = Append(@, Issue("Failed to analyze", env_file))]
       ELSE [s EXCEPT !.sec.environment_files = (env_file :> entry) @@ @,
                      !.sec.secrets_detected = @ \o found]

RECURSIVE SecurityLoop(_, _, _)
SecurityLoop(tree, s, files) ==
    IF files = <<>> THEN s
    ELSE SecurityLoop(tree, SecurityStep(tree, s, Head(files)), Tail(files))

analyze_security_config(tree, res) ==
    LET s == SecurityLoop(tree, [sec |-> NewSecurity, issues |-> res.issues],
                          EnvFiles)
    IN [res EXCEPT !.security = s.sec, !.issues = s.issues]

(***************************************************************************)
(* Phase 5: analyze_environment_config.  It adds the 'environment' key.    *)
(***************************************************************************)
analyze_environment_config(tree, res) ==
    LET env_analysis ==
            [config_files |->
                [f \in Range(ConfigFiles) |-> [exists |-> Exists(tree[f])]]]
    IN ("environment" :> env_analysis) @@ res

(***************************************************************************)
(* Phase 6: generate_summary.                                              *)
(***************************************************************************)
R_MultiStage ==
    "Consider using multi-stage builds for all Dockerfiles to reduce image size"
R_Healthcheck == "Add health checks to all services for better reliability"
R_Critical ==
    "CRITICAL: Replace default passwords in environment files before production"
R_NonRoot == "Configure non-root users in all Dockerfiles for security"
R_Prometheus == "Configure Prometheus for production monitoring"

When(c, r) == IF c THEN <<r>> ELSE <<>>

\* sum(1 for v in d.values() if P(v))
Count(d, P(_)) == Cardinality({k \in DOMAIN d : P(d[k])})

IsMulti(df) == df.stages > 1
HasHealth(cf) == cf.has_healthchecks
HasUser(df) == df.has_user

\* every stored compose analysis is a non-empty dict, hence truthy
total_compose_files(res) == Cardinality(DOMAIN res.compose_files)
total_dockerfiles(res) == Cardinality(DOMAIN res.dockerfiles)

\* A slip of the comparison: <= for <.
NeedsMultiStage_Le(res) == Count(res.dockerfiles, IsMulti) <= total_dockerfiles(res)

\* multistage_dockerfiles < total_dockerfiles
NeedsMultiStage(res) == Count(res.dockerfiles, IsMulti) < total_dockerfiles(res)

\* A slip of the total: the Dockerfile count for the compose-file count.
NeedsHealthcheck_WrongTotal(res) ==
    Count(res.compose_files, HasHealth) < total_dockerfiles(res)

\* compose_with_health < total_compose_files
NeedsHealthcheck(res) == Count(res.compose_files, HasHealth) < total_compose_files(res)

\* non_root_dockerfiles < total_dockerfiles
NeedsNonRoot(res) == Count(res.dockerfiles, HasUser) < total_dockerfiles(res)

generate_summary(res) ==
    LET recommendations ==
            When(NeedsMultiStage(res), R_MultiStage)
            \o When(NeedsHealthcheck(res), R_Healthcheck)
            \o When(res.security.secrets_detected # <<>>, R_Critical)
            \o When(NeedsNonRoot(res), R_NonRoot)
            \o When(~res.monitoring.prometheus.exists, R_Prometheus)
    IN [res EXCEPT !.recommendations = recommendations]

\* analyze(): the five phases in the order of the source, then the summary.
analyze(tree, g) ==
    generate_summary(
        analyze_environment_config(tree,
            analyze_security_config(tree,
                analyze_monitoring_config(tree,
                    analyze_dockerfiles(tree, g,
                        analyze_compose_files(tree, NewResults))))))

(***************************************************************************)
(* main(): analyze(), the write of docker/analysis-results.json, sys.exit. *)
(***************************************************************************)
PhaseOrder == <<"compose", "dockerfiles", "monitoring", "security", "environment">>

\* One analysis phase of analyze(): the phase at position step + 1 of order.
RunPhase(name, res) ==
    /\ pc = "analyze"
    /\ step < Len(order)
    /\ order[step + 1] = name
    /\ results' = res
    /\ step' = step + 1
    /\ pc' = IF step + 1 = Len(order) THEN "summary" ELSE "analyze"
    /\ UNCHANGED <<fs, glob, order, exit_code, written>>
    /\ UNCHANGED dvars

AnalyzeComposeFiles == RunPhase("compose", analyze_compose_files(fs, results))

AnalyzeDockerfiles == RunPhase("dockerfiles", analyze_dockerfiles(fs, glob, results))

AnalyzeMonitoringConfig ==
    RunPhase("monitoring", analyze_monitoring_config(fs, results))

AnalyzeSecurityConfig == RunPhase("security", analyze_security_config(fs, results))

AnalyzeEnvironmentConfig ==
    RunPhase("environment", analyze_environment_config(fs, results))

GenerateSummary ==
    /\ pc = "summary"
    /\ results' = generate_summary(results)
    /\ pc' = "save"
    /\ UNCHANGED <<fs, glob, order, step, exit_code, written>>
    /\ UNCHANGED dvars

\* open(results_file, 'w') and json.dump.  open raises FileNotFoundError when
\* there is no docker/ directory; nothing catches it, and the interpreter
\* ends the process with status 1.
SaveResults ==
    /\ pc = "save"
    /\ IF fs[DockerDir].kind = "dir"
       THEN written' = TRUE /\ pc' = "exit" /\ exit_code' = exit_code
       ELSE written' = written /\ pc' = "crashed" /\ exit_code' = <<1>>
    /\ UNCHANGED <<fs, glob, order, results, step>>
    /\ UNCHANGED dvars

\* The three branches of the exit.
Exit ==
    /\ pc = "exit"
    /\ LET critical_issues == Len(results.security.secrets_detected)
       IN exit_code' = IF critical_issues > 0 THEN <<1>>
                       ELSE IF results.issues # <<>> THEN <<0>>
                       ELSE <<0>>
    /\ pc' = "done"
    /\ UNCHANGED <<fs, glob, order, results, step, written>>
    /\ UNCHANGED dvars

(***************************************************************************)
(* Project trees.                                                          *)
(***************************************************************************)
Svc(n, hc, so, dep) ==
    [name |-> n, image |-> "img", healthcheck |-> hc, security_opt |-> so,
     deploy |-> dep, restart |-> "no"]
DocError == [NoDoc EXCEPT !.t = "error"]
DocNull == [NoDoc EXCEPT !.t = "null"]
DocEmpty == [NoDoc EXCEPT !.t = "dict"]
DocWeb ==
    [DocEmpty EXCEPT !.services = <<Svc("web", FALSE, FALSE, FALSE)>>,
                     !.volumes = <<"data">>]
DocWebHc ==
    [DocEmpty EXCEPT !.services = <<Svc("web", TRUE, FALSE, TRUE),
                                    Svc("db", FALSE, TRUE, FALSE)>>,
                     !.networks = <<"backend">>]
DocScrape == [DocEmpty EXCEPT !.scrape_configs = <<"app", "node">>]

D_Single == JoinLines(<<L_From, L_Cmd>>)
D_SingleUser == JoinLines(<<L_From, L_User>>)
D_Multi == JoinLines(ExampleLines)
D_MultiUser == JoinLines(<<L_FromAs, L_FromAs2, L_User>>)
D_Broken == JoinLines(<<L_From, L_FromAsBare>>)

E_Empty == <<>>
E_Jwt == T_JWT_SECRET \o <<"=", "f", "o", "o">>
E_Password == T_DB_PASSWORD \o <<"=">> \o T_password123
E_Two == <<"A", "=">> \o T_secret123 \o <<"\n", "B", "=">> \o T_CHANGE_ME
E_Admin == T_REDIS_PASSWORD \o <<"=">> \o T_admin123 \o T_password123

ComposeKinds ==
    {Unreadable, YamlFile(DocError), YamlFile(DocNull), YamlFile(DocWeb),
     YamlFile(DocWebHc)}
DockerfileKinds ==
    {Directory, Unreadable, TextFile(D_Single), TextFile(D_SingleUser),
     TextFile(D_Multi), TextFile(D_MultiUser), TextFile(D_Broken)}
PrometheusKinds ==
    {Unreadable, YamlFile(DocError), YamlFile(DocNull), YamlFile(DocScrape)}
DatasourceKinds == {YamlFile(DocError), YamlFile(DocNull), YamlFile(DocEmpty)}
EnvKinds ==
    {Unreadable, TextFile(E_Empty), TextFile(E_Jwt), TextFile(E_Password),
     TextFile(E_Two), TextFile(E_Admin)}

\* The states other than "absent" a name of the tree can be in.
Kinds(s) ==
    IF s \in Range(ComposeFiles) THEN ComposeKinds
    ELSE IF s \in DockerfilePaths THEN DockerfileKinds
    ELSE IF s = PrometheusYml THEN PrometheusKinds
    ELSE IF s = DatasourcesYml THEN DatasourceKinds
    ELSE IF s \in Range(EnvFiles) THEN EnvKinds
    ELSE IF s = DockerDir THEN {Directory}
    ELSE {Plain}

EmptyTree == [s \in Slots |-> Absent]

\* A file under docker/ needs the directory.
ValidTree(t) == Exists(t[ComposeFiles[5]]) => t[DockerDir].kind = "dir"

\* The names main() reads; docker/ is where it writes.
InputSlots == Slots \ {DockerDir}

\* The trees without docker/ in which only the names of picks may be present:
\* picks is a sequence of pairs <<name, state>>.
RECURSIVE TreeOf(_)
TreeOf(picks) ==
    IF picks = <<>> THEN EmptyTree
    ELSE [TreeOf(Tail(picks)) EXCEPT ![Head(picks)[1]] = Head(picks)[2]]

\* The choices of one name and a state for it, and the choice of nothing.
Picks ==
    UNION {{<<s, k>> : k \in Kinds(s)} : s \in InputSlots}
    \cup {<<AlertmanagerYml, Absent>>}

\* A tree with and without the docker/ directory.
DockerDirStates == {Absent, Directory}
WithDockerDir(t, d) == [t EXCEPT ![DockerDir] = d]

\* The tree t with the names of DOMAIN over set as over says.
Overlay(t, over) == [s \in Slots |-> IF s \in DOMAIN over THEN over[s] ELSE t[s]]

\* The orders in which glob can yield the Dockerfile* paths of the tree.
GlobOrders(t) ==
    LET found == {p \in DockerfilePaths : Exists(t[p])}
    IN {q \in [1..Cardinality(found) -> found] :
            \A i, j \in DOMAIN q : i # j => q[i] # q[j]}

DfIdle ==
    /\ content = NoText
    /\ lines = <<>>
    /\ idx = 0
    /\ analysis = NewAnalysis
    /\ dpc = "idle"

\* The state main() starts in on tree t, running the phases in order o.
Start(t, o) ==
    /\ fs = t
    /\ glob \in GlobOrders(t)
    /\ order = o
    /\ results = NewResults
    /\ pc = "analyze"
    /\ step = 0
    /\ exit_code = <<>>
    /\ written = FALSE
    /\ DfIdle

\* Every tree with at most MaxFiles input names present.
Init ==
    \E picks \in [1..MaxFiles -> Picks], d \in DockerDirStates :
        LET t == WithDockerDir(TreeOf(picks), d)
        IN ValidTree(t) /\ Start(t, PhaseOrder)

Next ==
    \/ AnalyzeComposeFiles
    \/ AnalyzeDockerfiles
    \/ AnalyzeMonitoringConfig
    \/ AnalyzeSecurityConfig
    \/ AnalyzeEnvironmentConfig
    \/ GenerateSummary
    \/ SaveResults
    \/ Exit

Spec == Init /\ [][Next]_vars

\* analyze_dockerfile_content alone, on every text of DockerfileTexts.
InitDockerfile ==
    /\ fs = EmptyTree
    /\ glob = <<>>
    /\ order = PhaseOrder
    /\ results = NewResults
    /\ pc = "idle"
    /\ step = 0
    /\ exit_code = <<>>
    /\ written = FALSE
    /\ DfInit

NextDockerfile == DfLine \/ DfReturn

SpecDockerfile == InitDockerfile /\ [][NextDockerfile]_vars

\* Every combination of states of the five compose files.
InitCompose ==
    \E c \in [Range(ComposeFiles) -> ComposeKinds \cup {Absent}],
       d \in DockerDirStates :
        LET t == WithDockerDir(Overlay(EmptyTree, c), d)
        IN ValidTree(t) /\ Start(t, PhaseOrder)

SpecCompose == InitCompose /\ [][Next]_vars

\* Every combination of states of the three env files.
InitSecurity ==
    \E e \in [Range(EnvFiles) -> EnvKinds \cup {Absent}], d \in DockerDirStates :
        Start(WithDockerDir(Overlay(EmptyTree, e), d), PhaseOrder)

SpecSecurity == InitSecurity /\ [][Next]_vars

\* Trees that vary everything generate_summary reads: two Dockerfiles, two
\* compose files, an env file and the Prometheus config.
SummaryDockerfiles ==
    {Absent, TextFile(D_Single), TextFile(D_SingleUser), TextFile(D_Multi),
     TextFile(D_MultiUser)}
SummaryCompose == {Absent, YamlFile(DocWeb), YamlFile(DocWebHc)}
SummaryEnv == {Absent, TextFile(E_Password)}
SummaryPrometheus == {Absent, YamlFile(DocNull), YamlFile(DocScrape)}

InitSummary ==
    \E df \in [DockerfilePaths -> SummaryDockerfiles],
       cf \in [{ComposeFiles[1], ComposeFiles[2]} -> SummaryCompose],
       e \in [{EnvFiles[1]} -> SummaryEnv],
       p \in [{PrometheusYml} -> SummaryPrometheus],
       d \in DockerDirStates :
        Start(WithDockerDir(Overlay(Overlay(Overlay(Overlay(EmptyTree, df), cf), e), p), d),
              PhaseOrder)

SpecSummary == InitSummary /\ [][Next]_vars

\* The five analysis phases in every order, on trees in which each phase
\* that records issues has a file that fails and a file that does not.
Orders(q) ==
    {r \in [DOMAIN q -> Range(q)] : \A i, j \in DOMAIN q : i # j => r[i] # r[j]}

InitOrder ==
    \E o \in Orders(PhaseOrder),
       cf \in [{ComposeFiles[1]} -> {Absent, YamlFile(DocError), YamlFile(DocWebHc)}],
       df \in [{"Dockerfile"} -> {Absent, TextFile(D_Broken), TextFile(D_SingleUser)}],
       p \in [{PrometheusYml} -> {Absent, YamlFile(DocNull), YamlFile(DocScrape)}],
       e \in [{EnvFiles[2]} -> {Absent, Unreadable, TextFile(E_Password)}] :
        Start(WithDockerDir(Overlay(Overlay(Overlay(Overlay(EmptyTree, cf), df), p), e),
                            Directory),
              o)

SpecOrder == InitOrder /\ [][Next]_vars

(***************************************************************************)
(* Properties of main() on every tree of Spec.                             *)
(***************************************************************************)
PhaseDone(name) == \E i \in 1..step : order[i] = name
Terminated == pc \in {"done", "crashed"}

\* Some env file that can be read holds one of the default tokens.
SecretInTree ==
    \E e \in Range(EnvFiles) :
        /\ CanOpen(fs[e])
        /\ \E i \in DOMAIN default_patterns : Contains(fs[e].text, default_patterns[i])

\* C1: a run of main() ends with exit code 1 if a default-secret token is in
\* one of the three env files, and with exit code 0 otherwise.
C1_ExitCodeFollowsSecrets ==
    Terminated => exit_code = <<IF SecretInTree THEN 1 ELSE 0>>

\* C2: from every project tree the run completes all six phases and writes
\* docker/analysis-results.json; nothing aborts it.
C2_AlwaysWritesResults ==
    /\ pc # "crashed"
    /\ pc = "done" => written /\ step = Len(order)

PrometheusIssue == Issue("Failed to parse Prometheus config", "")

\* C8: once analyze_monitoring_config has recorded 'Failed to parse Prometheus
\* config', monitoring.prometheus.exists is false and scrape_configs is 0.
C8_PrometheusFailureLeavesDefaults ==
    (PhaseDone("monitoring") /\ PrometheusIssue \in Range(results.issues))
        => /\ ~results.monitoring.prometheus.exists
           /\ results.monitoring.prometheus.scrape_configs = 0

(***************************************************************************)
(* analyze_compose_files, on every combination of the five compose files   *)
(* (SpecCompose).                                                          *)
(***************************************************************************)
\* The file opens and loads as a dict.
Parseable(f) == CanOpen(f) /\ f.doc.t = "dict"
IssuesAbout(file) ==
    Cardinality({i \in DOMAIN results.issues : results.issues[i].file = file})

\* C3: after analyze_compose_files an absent compose file has no entry in
\* compose_files and no issue; one that exists but cannot be parsed or
\* analysed has no entry and exactly one issue naming it; every other
\* candidate is processed all the same.
C3_ComposeEntriesAndIssues ==
    PhaseDone("compose") =>
        \A file \in Range(ComposeFiles) :
            /\ ~Exists(fs[file]) =>
                   file \notin DOMAIN results.compose_files /\ IssuesAbout(file) = 0
            /\ (Exists(fs[file]) /\ ~Parseable(fs[file])) =>
                   file \notin DOMAIN results.compose_files /\ IssuesAbout(file) = 1
            /\ Parseable(fs[file]) =>
                   file \in DOMAIN results.compose_files /\ IssuesAbout(file) = 0

C3_Witness ==
    /\ PhaseDone("compose")
    /\ fs[ComposeFiles[1]] = YamlFile(DocError)
    /\ ~Exists(fs[ComposeFiles[2]])
    /\ fs[ComposeFiles[3]] = Unreadable
    /\ fs[ComposeFiles[4]] = YamlFile(DocNull)
    /\ DOMAIN results.compose_files = {ComposeFiles[5]}
    /\ Len(results.issues) = 3

(***************************************************************************)
(* analyze_security_config, on every combination of the three env files    *)
(* (SpecSecurity).                                                         *)
(***************************************************************************)
EnvEntry(e) == results.security.environment_files[e]

RECURSIVE ConcatFound(_)
ConcatFound(files) ==
    IF files = <<>> THEN <<>>
    ELSE (IF CanOpen(fs[Head(files)]) THEN EnvEntry(Head(files)).default_secrets
          ELSE <<>>)
         \o ConcatFound(Tail(files))

\* C4: after analyze_security_config, for every readable env file a default
\* token is in the file's default_secrets iff the text contains it, and
\* secrets_detected is the per-file lists concatenated in file order,
\* duplicates across files kept; a file without a default token adds nothing.
C4_SecretsPerFileAndAggregate ==
    PhaseDone("security") =>
        /\ \A e \in Range(EnvFiles) : CanOpen(fs[e]) =>
               /\ \A i \in DOMAIN default_patterns :
                      default_patterns[i] \in Range(EnvEntry(e).default_secrets)
                          <=> Contains(fs[e].text, default_patterns[i])
               /\ Range(EnvEntry(e).default_secrets) \subseteq Range(default_patterns)
        /\ results.security.secrets_detected = ConcatFound(EnvFiles)

C4_Witness ==
    /\ PhaseDone("security")
    /\ fs[EnvFiles[1]] = TextFile(E_Password)
    /\ fs[EnvFiles[2]] = TextFile(E_Jwt)
    /\ fs[EnvFiles[3]] = TextFile(E_Admin)
    /\ EnvEntry(EnvFiles[2]).has_jwt_secret
    /\ EnvEntry(EnvFiles[2]).default_secrets = <<>>
    /\ results.security.secrets_detected = <<T_password123, T_password123, T_admin123>>

(***************************************************************************)
(* generate_summary.                                                       *)
(***************************************************************************)
SummaryDone == pc \in {"save", "exit", "done", "crashed"}
ZeroFound == DOMAIN results.dockerfiles = {} /\ DOMAIN results.compose_files = {}

\* One of the two paths the Prometheus branch takes was opened and loaded.
PrometheusLoaded ==
    \E file \in {PrometheusYml, DatasourcesYml} :
        CanOpen(fs[file]) /\ fs[file].doc.t # "error"

\* C6: with zero Dockerfiles and zero compose files found, the
\* recommendations are the Prometheus one if the Prometheus config is absent,
\* and nothing else.
C6_OnlyPrometheusIfAbsent ==
    (SummaryDone /\ ZeroFound) =>
        results.recommendations = When(~Exists(fs[PrometheusYml]), R_Prometheus)

\* C6 as amended: with zero Dockerfiles and zero compose files found the
\* recommendations are the CRITICAL one iff an env file holds a default
\* token, then the Prometheus one iff neither path of the Prometheus branch
\* was loaded; never the multi-stage, healthcheck or non-root ones.
C6_CriticalAndPrometheusOnly ==
    (SummaryDone /\ ZeroFound) =>
        results.recommendations =
            When(SecretInTree, R_Critical) \o When(~PrometheusLoaded, R_Prometheus)

C6_Witness ==
    /\ SummaryDone
    /\ ZeroFound
    /\ Exists(fs[ComposeFiles[1]])
    /\ results.recommendations = <<R_Critical, R_Prometheus>>

AllRecommendations ==
    <<R_MultiStage, R_Healthcheck, R_Critical, R_NonRoot, R_Prometheus>>
Recommended(r) == r \in Range(results.recommendations)
Selected(r) == Recommended(r)

\* C7: after generate_summary the recommendations are the five fixed strings
\* filtered by their conditions, in the fixed order, none twice and none
\* suppressed by another.
C7_RecommendationsByCondition ==
    SummaryDone =>
        /\ Recommended(R_MultiStage) <=>
               \E d \in DOMAIN results.dockerfiles : results.dockerfiles[d].stages <= 1
        /\ Recommended(R_Healthcheck) <=>
               \E c \in DOMAIN results.compose_files :
                   ~results.compose_files[c].has_healthchecks
        /\ Recommended(R_Critical) <=> results.security.secrets_detected # <<>>
        /\ Recommended(R_NonRoot) <=>
               \E d \in DOMAIN results.dockerfiles : ~results.dockerfiles[d].has_user
        /\ Recommended(R_Prometheus) <=> ~results.monitoring.prometheus.exists
        /\ results.recommendations = SelectSeq(AllRecommendations, Selected)

C7_Witness ==
    /\ SummaryDone
    /\ results.recommendations = AllRecommendations
    /\ Cardinality(DOMAIN results.dockerfiles) = 2
    /\ \E d \in DOMAIN results.dockerfiles : results.dockerfiles[d].stages > 1

(***************************************************************************)
(* The five analysis phases in every order (SpecOrder).                    *)
(***************************************************************************)
Occurrences(q, x) == Cardinality({i \in DOMAIN q : q[i] = x})
SameBag(q, r) ==
    /\ Len(q) = Len(r)
    /\ \A x \in Range(q) \cup Range(r) : Occurrences(q, x) = Occurrences(r, x)

\* C10: the five analysis phases run in any order, then the summary, give
\* the same result aggregate as the order of analyze().
C10_AnyOrderSameResults == SummaryDone => results = analyze(fs, glob)

\* C10 as amended: they give the same aggregate but for the order of the
\* issues list, which holds the same issue strings, each as often.
C10_AnyOrderSameUpToIssueOrder ==
    SummaryDone =>
        /\ [results EXCEPT !.issues = <<>>] = [analyze(fs, glob) EXCEPT !.issues = <<>>]
        /\ SameBag(results.issues, analyze(fs, glob).issues)

C10_Witness ==
    /\ SummaryDone
    /\ order # PhaseOrder
    /\ Len(results.issues) >= 3
    /\ results.issues # analyze(fs, glob).issues

(***************************************************************************)
(* analyze_dockerfile_content, line by line (SpecDockerfile).              *)
(***************************************************************************)
Stripped == [i \in DOMAIN lines |-> Strip(lines[i])]
IsComment(l) == l = <<>> \/ StartsWith(l, T_HASH)
IsFromLine(l) == ~IsComment(l) /\ StartsWith(l, T_FROM)
IsStageLine(l) == IsFromLine(l) /\ Contains(l, T_AS)
FromLines == SelectSeq(Stripped, IsFromLine)
StageLines == Cardinality({i \in DOMAIN lines : IsStageLine(Stripped[i])})
HasSecondToken(l) == Len(Split(l)) >= 2
NoToken == <<>>
SecondToken(l) == IF HasSecondToken(l) THEN Split(l)[2] ELSE NoToken

StagesAsClaimed ==
    analysis.stages =
        IF StageLines = 0 /\ analysis.base_images # <<>> THEN 1 ELSE StageLines

ExampleAsClaimed ==
    /\ content = JoinLines(ExampleLines) =>
           analysis.stages = 2 /\ Len(analysis.base_images) = 3
    /\ content = L_From => analysis.stages = 1

Checks(l) ==
    <<StartsWith(l, T_FROM) /\ Contains(l, T_AS),
      StartsWith(l, T_FROM),
      StartsWith(l, T_USER_SP),
      StartsWith(l, T_HEALTHCHECK),
      StartsWith(l, T_EXPOSE),
      StartsWith(l, T_ENTRYPOINT) \/ StartsWith(l, T_CMD),
      Contains(l, T_MOUNT_CACHE),
      Contains(l, T_BUILDKIT),
      Contains(l, T_PLATFORM)>>
FirstMatch(l) ==
    IF IsComment(l) \/ \A k \in DOMAIN Checks(l) : ~Checks(l)[k] THEN 0
    ELSE CHOOSE k \in DOMAIN Checks(l) :
             Checks(l)[k] /\ \A j \in 1..(k - 1) : ~Checks(l)[j]

SecurityTag(k) ==
    IF k = 3 THEN <<"non-root-user">> ELSE IF k = 4 THEN <<"health-check">> ELSE <<>>
OptimizationTag(k) ==
    IF k = 7 THEN <<"build-cache">>
    ELSE IF k = 8 THEN <<"buildkit">>
    ELSE IF k = 9 THEN <<"multi-platform">>
    ELSE <<>>

\* The effect of one line whose first matching check is k, and no other.
OnlyEffectOf(k, a, b) ==
    /\ b.stages = a.stages + (IF k = 1 THEN 1 ELSE 0)
    /\ Len(b.base_images) = Len(a.base_images) + (IF k \in {1, 2} THEN 1 ELSE 0)
    /\ b.has_user = (a.has_user \/ k = 3)
    /\ b.has_healthcheck = (a.has_healthcheck \/ k = 4)
    /\ b.has_expose = (a.has_expose \/ k = 5)
    /\ b.has_entrypoint = (a.has_entrypoint \/ k = 6)
    /\ b.security_features = a.security_features \o SecurityTag(k)
    /\ b.optimization_features = a.optimization_features \o OptimizationTag(k)

\* C9: each line of analyze_dockerfile_content has the effect of the first
\* check it matches, in the order FROM-with-AS, FROM, USER, HEALTHCHECK,
\* EXPOSE, ENTRYPOINT/CMD, --mount=type=cache, BUILDKIT, --platform=, and of
\* no other: a FROM line adds no security or optimization tag, and a line
\* matching an earlier check adds no tag of a later one.
C9_FirstMatchOnly ==
    [][(dpc = "loop" /\ idx <= Len(lines) /\ dpc' = "loop") =>
           OnlyEffectOf(FirstMatch(Stripped[idx]), analysis, analysis')]_vars

C9_Witness ==
    /\ dpc = "loop"
    /\ idx = 3
    /\ lines[1] = L_FromPlatform
    /\ lines[2] = L_RunCache
    /\ analysis.base_images = <<T_PLATFORM \o <<"x">>>>
    /\ analysis.optimization_features = <<"build-cache">>

====
